---- MODULE Spec2Model ----
(***************************************************************************)
(* Space Defender (NickKasten/curly-guide): the frame orchestrator         *)
(* (services/game_engine.py), its entities, the collision helpers, the     *)
(* score service and the game-state machine of main.py.                    *)
(*                                                                         *)
(* Units.  Times are integer milliseconds: delta_time is                   *)
(* clock.tick(FPS) / 1000.0, and clock.tick returns whole milliseconds.    *)
(* The spawn interval is kept in microseconds and enemy speeds in          *)
(* thousandths of a pixel per frame, so that the multiplications by 0.9    *)
(* and 1.1 of update_difficulty stay exact for the levels explored.        *)
(* Rectangles are pygame.Rect values: integer x, y, w, h; a float assigned *)
(* to a Rect coordinate is truncated toward zero.                          *)
(***************************************************************************)
EXTENDS Integers, Sequences, FiniteSets, TLC

\* ---------------------------------------------------------------- config.py
FPS == 60
SCREEN_WIDTH == 800
SCREEN_HEIGHT == 600
PLAYER_SPEED == 5
PLAYER_WIDTH == 30
PLAYER_HEIGHT == 40
\* PLAYER_START_X_RATIO = 0.5 and PLAYER_START_Y_RATIO = 0.85, in percent
PLAYER_START_X_RATIO == 50
PLAYER_START_Y_RATIO == 85
PLAYER_STARTING_LIVES == 3
\* 2.0 s
PLAYER_INVULNERABILITY_TIME == 2000
PROJECTILE_SPEED == 8
PROJECTILE_WIDTH == 4
PROJECTILE_HEIGHT == 12
\* 0.3 s
PROJECTILE_COOLDOWN == 300
\* 1 and 3 pixels per frame, in thousandths
ENEMY_SPEED_MIN == 1000
ENEMY_SPEED_MAX == 3000
ENEMY_SIZE_MIN == 20
ENEMY_SIZE_MAX == 40
\* 1.5 s, in microseconds
ENEMY_SPAWN_RATE == 1500000
ENEMY_POINTS == 10
DIFFICULTY_INCREASE_INTERVAL == 100
\* 0.9 and 1.1, in tenths
SPAWN_RATE_MULTIPLIER == 9
ENEMY_SPEED_MULTIPLIER == 11
\* margin of cleanup_sprites
CLEANUP_MARGIN == 100
\* the "* 60" of the entities' update methods
BASELINE_FPS == 60

GameStates == {"menu", "playing", "paused", "game_over"}

\* ---------------------------------------------------------------- bounds
\* number of enemy and projectile objects alive at once
MaxSprites == 3
\* the same, where every operation of the engine is followed
MaxCrowd == 1
\* the kills whose points are followed
MaxKills == 2
\* the score up to which direct add_points calls are followed
MaxScore == 100
\* how far below zero the life count is followed
MaxDebt == 1
\* polls of is_game_over counted per game
MaxPolls == 2
\* key events queued for one iteration of the main loop
MaxEvents == 3
\* difficulty thresholds the score is followed across
MaxLevels == 2
\* steps of PLAYER_SPEED the player is followed away from its start, where
\* the frames are followed one by one
MaxSteps == 2
\* enemies and projectiles alive where a spawn meets a projectile in flight
MaxPair == 2
\* iterations of the main loop without update whose time is followed
MaxIdle == 3

\* delta times of a frame, in ms: no time, and a three-second stall
DeltaTimes == {0, 3000}
\* delta times of the update calls made on single sprites
SpriteDeltaTimes == {3000}
\* delta times, in ms, of short frames into which a stretch of time is split
SplitDeltaTimes == {10, 20}
\* delta times of the frames followed one by one: no time, a fifth of a second
\* and the stall
FrameDeltaTimes == {0, 200, 3000}
\* delta times of the frames between two shots: no time, parts of
\* PROJECTILE_COOLDOWN (a third, a half, two thirds) and the stall
ShotDeltaTimes == {0, 100, 150, 200, 3000}
\* positive delta times of a normal frame: one and two frames of 1/FPS s
NormalDeltaTimes == {1000 \div FPS, 2 * (1000 \div FPS)}
\* the time a projectile takes from the player's top edge to the line where
\* enemies are spawned: 66 frames of 1/60 s
FlightDeltaTimes == {1100}
\* what random draws for one enemy: x by randint(margin, SCREEN_WIDTH - margin),
\* size by randint(ENEMY_SIZE_MIN, ENEMY_SIZE_MAX), the speed by uniform(min, max)
\* (here: which end of the current range), rotation by uniform(0, 360) and
\* rotation_speed by uniform(-2, 2), both in degrees
EnemyDraws ==
    {[x |-> 400, size |-> ENEMY_SIZE_MAX, fast |-> FALSE, rotation |-> 45, rotation_speed |-> 0],
     [x |-> 420, size |-> ENEMY_SIZE_MIN, fast |-> TRUE, rotation |-> 0, rotation_speed |-> 0]}
\* the same two enemies, both at the fast end of the range
FastDraws == {[d EXCEPT !.fast = TRUE] : d \in EnemyDraws}
\* the ends of what randint and uniform return for x, size and speed
EdgeDraws ==
    {[x |-> x, size |-> size, fast |-> fast, rotation |-> 0, rotation_speed |-> 0] :
        x \in {ENEMY_SIZE_MAX, SCREEN_WIDTH - ENEMY_SIZE_MAX},
        size \in {ENEMY_SIZE_MIN, ENEMY_SIZE_MAX},
        fast \in BOOLEAN}

\* ---------------------------------------------------------------- numbers
Min(a, b) == IF a <= b THEN a ELSE b

\* int(a / b) for b > 0: conversion of a float to a Rect coordinate
TruncDiv(a, b) == IF a >= 0 THEN a \div b ELSE -((-a) \div b)

\* rect.y += v * delta_time * 60, v in thousandths of a pixel per frame, dt in ms
Advance(pos, v, dt) == TruncDiv(pos * 1000000 + v * dt * BASELINE_FPS, 1000000)

\* ---------------------------------------------------------------- pygame.Rect
Rect(x, y, w, h) == [x |-> x, y |-> y, w |-> w, h |-> h]
Left(r) == r.x
Right(r) == r.x + r.w
Top(r) == r.y
Bottom(r) == r.y + r.h
CenterX(r) == r.x + r.w \div 2
CenterY(r) == r.y + r.h \div 2
\* rect = image.get_rect(); rect.centerx = cx; rect.centery = cy
RectCentered(cx, cy, w, h) == Rect(cx - w \div 2, cy - h \div 2, w, h)

\* ---------------------------------------------------------------- services/collision_service.py
\* boxes that touch counted as colliding
check_collision_Closed(rect1, rect2) ==
    /\ rect1.x <= rect2.x + rect2.w
    /\ rect1.y <= rect2.y + rect2.h
    /\ rect1.x + rect1.w >= rect2.x
    /\ rect1.y + rect1.h >= rect2.y

\* pygame.Rect.colliderect, used by check_collision, spritecollide and groupcollide
check_collision(rect1, rect2) ==
    /\ rect1.x < rect2.x + rect2.w
    /\ rect1.y < rect2.y + rect2.h
    /\ rect1.x + rect1.w > rect2.x
    /\ rect1.y + rect1.h > rect2.y

\* a box that only touches the margin counted as out of bounds
check_out_of_bounds_Touching(rect, screen_width, screen_height, margin) ==
    IF Right(rect) <= -margin THEN TRUE
    ELSE IF Left(rect) >= screen_width + margin THEN TRUE
    ELSE IF Bottom(rect) <= -margin THEN TRUE
    ELSE IF Top(rect) >= screen_height + margin THEN TRUE
    ELSE FALSE

check_out_of_bounds(rect, screen_width, screen_height, margin) ==
    IF Right(rect) < -margin THEN TRUE
    ELSE IF Left(rect) > screen_width + margin THEN TRUE
    ELSE IF Bottom(rect) < -margin THEN TRUE
    ELSE IF Top(rect) > screen_height + margin THEN TRUE
    ELSE FALSE

\* the clamp at the right edge left out
keep_in_bounds_NoRight(rect, screen_width, screen_height) ==
    LET r1 == IF Left(rect) < 0 THEN [rect EXCEPT !.x = 0] ELSE rect
        r3 == IF Top(r1) < 0 THEN [r1 EXCEPT !.y = 0] ELSE r1
        r4 == IF Bottom(r3) > screen_height THEN [r3 EXCEPT !.y = screen_height - r3.h] ELSE r3
    IN  r4

keep_in_bounds(rect, screen_width, screen_height) ==
    LET r1 == IF Left(rect) < 0 THEN [rect EXCEPT !.x = 0] ELSE rect
        r2 == IF Right(r1) > screen_width THEN [r1 EXCEPT !.x = screen_width - r1.w] ELSE r1
        r3 == IF Top(r2) < 0 THEN [r2 EXCEPT !.y = 0] ELSE r2
        r4 == IF Bottom(r3) > screen_height THEN [r3 EXCEPT !.y = screen_height - r3.h] ELSE r3
    IN  r4

\* ---------------------------------------------------------------- pygame.sprite.Group
\* A group is the sequence of the ids of its sprites, in the order they were added.
PlayerId == 0
SpriteIds == 1 .. MaxSprites

Members(group) == {group[i] : i \in 1 .. Len(group)}
GroupRemove(group, ids) == SelectSeq(group, LAMBDA s : s \notin ids)

\* ---------------------------------------------------------------- entities/player.py
NewPlayer(x, y) ==
    [rect |-> RectCentered(x, y, PLAYER_WIDTH, PLAYER_HEIGHT),
     lives |-> PLAYER_STARTING_LIVES,
     max_lives |-> PLAYER_STARTING_LIVES,
     shoot_cooldown |-> 0,
     invulnerable_flash_timer |-> 0]

\* the vertical movement of lines 91-94 switched on
PlayerUpdate_Vertical(p, input_state, delta_time) ==
    LET move_x == (IF input_state.move_left THEN -PLAYER_SPEED ELSE 0)
                  + (IF input_state.move_right THEN PLAYER_SPEED ELSE 0)
        move_y == (IF input_state.move_up THEN -PLAYER_SPEED ELSE 0)
                  + (IF input_state.move_down THEN PLAYER_SPEED ELSE 0)
        moved == [p.rect EXCEPT !.x = @ + move_x, !.y = @ + move_y]
    IN  [p EXCEPT
            !.rect = keep_in_bounds(moved, SCREEN_WIDTH, SCREEN_HEIGHT),
            !.shoot_cooldown = IF @ > 0 THEN @ - delta_time ELSE @,
            !.invulnerable_flash_timer = IF @ > 0 THEN @ - delta_time ELSE @]

\* Player.update(input_state, delta_time)
PlayerUpdate(p, input_state, delta_time) ==
    LET move_x == (IF input_state.move_left THEN -PLAYER_SPEED ELSE 0)
                  + (IF input_state.move_right THEN PLAYER_SPEED ELSE 0)
        move_y == 0
        moved == [p.rect EXCEPT !.x = @ + move_x, !.y = @ + move_y]
    IN  [p EXCEPT
            !.rect = keep_in_bounds(moved, SCREEN_WIDTH, SCREEN_HEIGHT),
            !.shoot_cooldown = IF @ > 0 THEN @ - delta_time ELSE @,
            !.invulnerable_flash_timer = IF @ > 0 THEN @ - delta_time ELSE @]

\* a shot only once the cooldown has gone below zero
can_shoot_Strict(p) == p.shoot_cooldown < 0

\* Player.can_shoot
can_shoot(p) == p.shoot_cooldown <= 0

\* the Projectile made by Player.shoot
ShotOf(p) ==
    [kind |-> "projectile",
     rect |-> RectCentered(CenterX(p.rect), Top(p.rect), PROJECTILE_WIDTH, PROJECTILE_HEIGHT),
     velocity_x |-> 0,
     velocity_y |-> -PROJECTILE_SPEED]

\* a shot that starts no cooldown
AfterShot_NoCooldown(p) == p

\* the player after Player.shoot made a projectile
AfterShot(p) == [p EXCEPT !.shoot_cooldown = PROJECTILE_COOLDOWN]

take_damage(p) ==
    [p EXCEPT !.lives = @ - 1,
              !.invulnerable_flash_timer = PLAYER_INVULNERABILITY_TIME]

heal(p, amount) == [p EXCEPT !.lives = Min(@ + amount, p.max_lives)]

\* ---------------------------------------------------------------- entities/enemy.py, entities/projectile.py
NewEnemy(x, y, speed, size, rotation, rotation_speed) ==
    [kind |-> "enemy",
     rect |-> RectCentered(x, y, size, size),
     speed |-> speed,
     rotation |-> rotation,
     rotation_speed |-> rotation_speed,
     size |-> size]

\* side of the image pygame.transform.rotate makes of a size x size square:
\* the square's side at a multiple of 90 degrees, its diagonal (rounded up) at
\* an odd multiple of 45 degrees; the angles drawn are multiples of 45
RotatedSide(size, rotation) ==
    IF rotation % 90 = 0 THEN size ELSE (size * 1415) \div 1000 + 1

\* Enemy.update(delta_time)
EnemyUpdate(e, delta_time) ==
    LET moved == [e.rect EXCEPT !.y = Advance(@, e.speed, delta_time)]
        rotation == (e.rotation + e.rotation_speed) % 360
        side == RotatedSide(e.size, rotation)
    IN  [e EXCEPT !.rotation = rotation,
                  !.rect = RectCentered(CenterX(moved), CenterY(moved), side, side)]

\* Projectile.update(delta_time)
ProjectileUpdate(q, delta_time) ==
    [q EXCEPT !.rect.x = Advance(@, q.velocity_x * 1000, delta_time),
              !.rect.y = Advance(@, q.velocity_y * 1000, delta_time)]

\* ---------------------------------------------------------------- services/score_service.py
\* highscores.json: missing, unreadable as JSON, or holding {"high_score": value}
\* (value: the characters json writes for the value of "high_score")
NoFile == [kind |-> "missing", value |-> <<>>]
BadFile == [kind |-> "corrupt", value |-> <<>>]

\* Python's None, kept apart from every score (scores are integers >= 0)
None == -1

DigitChars == <<"0", "1", "2", "3", "4", "5", "6", "7", "8", "9">>
JsonNull == <<"n", "u", "l", "l">>

\* json.dump of an int >= 0: its decimal digits
RECURSIVE Digits(_)
Digits(n) ==
    IF n < 10 THEN <<DigitChars[n + 1]>>
    ELSE Append(Digits(n \div 10), DigitChars[(n % 10) + 1])

\* json.dump of the value of "high_score"
json_dump(v) == IF v = None THEN JsonNull ELSE Digits(v)

IsDigits(text) ==
    /\ text # <<>>
    /\ \A i \in DOMAIN text : \E d \in DOMAIN DigitChars : DigitChars[d] = text[i]

RECURSIVE ParseDigits(_)
ParseDigits(text) ==
    IF text = <<>> THEN 0
    ELSE ParseDigits(SubSeq(text, 1, Len(text) - 1)) * 10
         + (CHOOSE d \in 0 .. 9 : DigitChars[d + 1] = text[Len(text)])

\* json.load of the value of "high_score": an int, or None for null
json_load(text) == IF IsDigits(text) THEN ParseDigits(text) ELSE None

ScoreFile(v) == [kind |-> "json", value |-> json_dump(v)]

\* ScoreService.load_high_score: data.get("high_score", 0) of a file that
\* parses, 0 when the file is missing or does not parse
load_high_score(f) == IF f.kind = "json" THEN json_load(f.value) ELSE 0

NewScoreService(f) == [current_score |-> 0, high_score |-> load_high_score(f)]

add_points(ss, points) ==
    LET total == ss.current_score + points
    IN  [current_score |-> total,
         high_score |-> IF total > ss.high_score THEN total ELSE ss.high_score]

\* a reset that forgets the high score too
reset_score_Both(ss) == [current_score |-> 0, high_score |-> 0]

\* ScoreService.reset_score
reset_score(ss) == [ss EXCEPT !.current_score = 0]

\* the file after save_high_score: written; open() failed (the file is as it
\* was); or the write failed after open(..., 'w') had truncated the file
SaveOutcomes == {"written", "not_opened", "truncated"}

\* the current score written in place of the high score
save_high_score_Current(ss, f, outcome) ==
    CASE outcome = "written" -> ScoreFile(ss.current_score)
      [] outcome = "not_opened" -> f
      [] OTHER -> BadFile

save_high_score(ss, f, outcome) ==
    CASE outcome = "written" -> ScoreFile(ss.high_score)
      [] outcome = "not_opened" -> f
      [] OTHER -> BadFile

\* ---------------------------------------------------------------- services/game_engine.py
\* the sprite objects alive, by id: none
NoSprites == [i \in {} |-> i]

\* pygame.time.Clock.tick(framerate) on a clock that ticked elapsed ms ago: it
\* waits until 1000 \div framerate ms have gone by since that tick, and returns
\* the ms gone by since it
tick(elapsed, framerate) ==
    IF elapsed < 1000 \div framerate THEN 1000 \div framerate ELSE elapsed

\* GameEngine.__init__; f is highscores.json as ScoreService() finds it; clock
\* is the ms gone by since self.clock ticked or was made
NewEngine(f) ==
    [all_sprites |-> <<PlayerId>>,
     player_projectiles |-> <<>>,
     enemies |-> <<>>,
     sprites |-> NoSprites,
     score_service |-> NewScoreService(f),
     player |-> NewPlayer((SCREEN_WIDTH * PLAYER_START_X_RATIO) \div 100,
                          (SCREEN_HEIGHT * PLAYER_START_Y_RATIO) \div 100),
     enemy_spawn_timer |-> 0,
     current_spawn_rate |-> ENEMY_SPAWN_RATE,
     next_difficulty_score |-> DIFFICULTY_INCREASE_INTERVAL,
     current_enemy_speed_min |-> ENEMY_SPEED_MIN,
     current_enemy_speed_max |-> ENEMY_SPEED_MAX,
     player_invulnerable_timer |-> 0,
     clock |-> 0]

\* a reset that keeps the difficulty the last game reached
reset_KeepDifficulty(g) ==
    [g EXCEPT
        !.all_sprites = <<PlayerId>>,
        !.player_projectiles = <<>>,
        !.enemies = <<>>,
        !.sprites = NoSprites,
        !.score_service = reset_score(@),
        !.player = NewPlayer((SCREEN_WIDTH * PLAYER_START_X_RATIO) \div 100,
                             (SCREEN_HEIGHT * PLAYER_START_Y_RATIO) \div 100),
        !.enemy_spawn_timer = 0,
        !.player_invulnerable_timer = 0]

\* GameEngine.reset
reset(g) ==
    [g EXCEPT
        !.all_sprites = <<PlayerId>>,
        !.player_projectiles = <<>>,
        !.enemies = <<>>,
        !.sprites = NoSprites,
        !.score_service = reset_score(@),
        !.player = NewPlayer((SCREEN_WIDTH * PLAYER_START_X_RATIO) \div 100,
                             (SCREEN_HEIGHT * PLAYER_START_Y_RATIO) \div 100),
        !.enemy_spawn_timer = 0,
        !.current_spawn_rate = ENEMY_SPAWN_RATE,
        !.current_enemy_speed_min = ENEMY_SPEED_MIN,
        !.current_enemy_speed_max = ENEMY_SPEED_MAX,
        !.next_difficulty_score = DIFFICULTY_INCREASE_INTERVAL,
        !.player_invulnerable_timer = 0]

\* ids no live sprite object has
FreeIds(g) == SpriteIds \ DOMAIN g.sprites
NewId(g) == CHOOSE i \in FreeIds(g) : \A j \in FreeIds(g) : i <= j

\* a removal from the typed groups alone
Kill_TypedOnly(g, ids) ==
    [g EXCEPT
        !.player_projectiles = GroupRemove(@, ids),
        !.enemies = GroupRemove(@, ids),
        !.sprites = [i \in (DOMAIN @) \ ids |-> @[i]]]

\* sprite.kill() removes the sprite from every group
Kill(g, ids) ==
    [g EXCEPT
        !.all_sprites = GroupRemove(@, ids),
        !.player_projectiles = GroupRemove(@, ids),
        !.enemies = GroupRemove(@, ids),
        !.sprites = [i \in (DOMAIN @) \ ids |-> @[i]]]

\* update lines 141-143: the projectile joins player_projectiles and all_sprites
AddProjectile(g, q) ==
    LET id == NewId(g)
    IN  [g EXCEPT
            !.sprites = [i \in (DOMAIN @) \cup {id} |-> IF i = id THEN q ELSE @[i]],
            !.player_projectiles = Append(@, id),
            !.all_sprites = Append(@, id)]

\* an enemy given a speed from the range the game starts with
spawn_enemy_InitialSpeed(g, draw) ==
    LET id == NewId(g)
        speed == IF draw.fast THEN ENEMY_SPEED_MAX ELSE ENEMY_SPEED_MIN
        enemy == NewEnemy(draw.x, -ENEMY_SIZE_MAX, speed, draw.size,
                          draw.rotation, draw.rotation_speed)
    IN  [g EXCEPT
            !.sprites = [i \in (DOMAIN @) \cup {id} |-> IF i = id THEN enemy ELSE @[i]],
            !.enemies = Append(@, id),
            !.all_sprites = Append(@, id)]

\* GameEngine.spawn_enemy with the values drawn by random
spawn_enemy(g, draw) ==
    LET id == NewId(g)
        speed == IF draw.fast THEN g.current_enemy_speed_max ELSE g.current_enemy_speed_min
        enemy == NewEnemy(draw.x, -ENEMY_SIZE_MAX, speed, draw.size,
                          draw.rotation, draw.rotation_speed)
    IN  [g EXCEPT
            !.sprites = [i \in (DOMAIN @) \cup {id} |-> IF i = id THEN enemy ELSE @[i]],
            !.enemies = Append(@, id),
            !.all_sprites = Append(@, id)]

\* pygame.sprite.spritecollide(sprite, group, dokill): the sprites of the group
\* whose rect collides with the sprite's, in group order
SpriteCollide(g, rect, group) ==
    SelectSeq(group, LAMBDA b : check_collision(rect, g.sprites[b].rect))

\* pygame.sprite.groupcollide(groupa, groupb, True, True): each sprite of
\* groupa in turn is tested against what is left of groupb; the sprites of
\* groupb it hits are killed at once, and so is the sprite itself.
\* crashed: the returned dict as a sequence of <<sprite, hit list>> entries.
RECURSIVE GroupCollide(_, _, _, _)
GroupCollide(g, groupa, groupb, crashed) ==
    IF groupa = <<>> THEN [groupb |-> groupb, crashed |-> crashed]
    ELSE LET a == Head(groupa)
             collision == SpriteCollide(g, g.sprites[a].rect, groupb)
         IN  IF collision # <<>>
             THEN GroupCollide(g, Tail(groupa), GroupRemove(groupb, Members(collision)),
                               Append(crashed, [sprite |-> a, hits |-> collision]))
             ELSE GroupCollide(g, Tail(groupa), groupb, crashed)

\* a group collision that tests every sprite of group1 against all of group2
check_group_collision_Whole(g, group1, group2) ==
    LET all == [i \in 1 .. Len(group1) |->
                   [sprite |-> group1[i],
                    hits |-> SpriteCollide(g, g.sprites[group1[i]].rect, group2)]]
        crashed == SelectSeq(all, LAMBDA c : c.hits # <<>>)
    IN  [groupb |-> GroupRemove(group2, UNION {Members(crashed[i].hits) : i \in 1 .. Len(crashed)}),
         crashed |-> crashed]

\* collision_service.check_group_collision(group1, group2, True, True)
check_group_collision(g, group1, group2) == GroupCollide(g, group1, group2, <<>>)

\* scoring once per projectile that hit
AwardHits_PerProjectile(ss, crashed) ==
    IF crashed = <<>> THEN ss ELSE add_points(ss, ENEMY_POINTS * Len(crashed))

\* check_collisions lines 231-233: add_points once per entry of every hit list
RECURSIVE AwardHits(_, _)
AwardHits(ss, crashed) ==
    IF crashed = <<>> THEN ss
    ELSE IF Head(crashed).hits = <<>> THEN AwardHits(ss, Tail(crashed))
    ELSE AwardHits(add_points(ss, ENEMY_POINTS),
                   <<[Head(crashed) EXCEPT !.hits = Tail(@)]>> \o Tail(crashed))

KilledBy(crashed) ==
    UNION {{crashed[i].sprite} \cup Members(crashed[i].hits) : i \in 1 .. Len(crashed)}

\* check_collisions lines 225-234
ProjectilesHitEnemies(g) ==
    LET hits == check_group_collision(g, g.player_projectiles, g.enemies).crashed
    IN  [Kill(g, KilledBy(hits)) EXCEPT !.score_service = AwardHits(@, hits)]

\* the enemy-player check made whatever the invulnerability timer
EnemiesHitPlayer_NoShield(g) ==
    LET player_hits == SpriteCollide(g, g.player.rect, g.enemies)
    IN  IF player_hits # <<>>
        THEN Kill([g EXCEPT !.player = take_damage(@),
                            !.player_invulnerable_timer = PLAYER_INVULNERABILITY_TIME],
                  Members(player_hits))
        ELSE g

\* the enemy-player check taking one life per enemy
EnemiesHitPlayer_PerEnemy(g) ==
    IF g.player_invulnerable_timer <= 0
    THEN LET player_hits == SpriteCollide(g, g.player.rect, g.enemies)
         IN  IF player_hits # <<>>
             THEN Kill([g EXCEPT !.player = [take_damage(@) EXCEPT
                                                !.lives = g.player.lives - Len(player_hits)],
                                 !.player_invulnerable_timer = PLAYER_INVULNERABILITY_TIME],
                       Members(player_hits))
             ELSE g
    ELSE g

\* points awarded for the enemies that hit the player, too
EnemiesHitPlayer_Scored(g) ==
    IF g.player_invulnerable_timer <= 0
    THEN LET player_hits == SpriteCollide(g, g.player.rect, g.enemies)
         IN  IF player_hits # <<>>
             THEN Kill([g EXCEPT !.player = take_damage(@),
                                 !.score_service = add_points(@, ENEMY_POINTS * Len(player_hits)),
                                 !.player_invulnerable_timer = PLAYER_INVULNERABILITY_TIME],
                       Members(player_hits))
             ELSE g
    ELSE g

\* check_collisions lines 236-250
EnemiesHitPlayer(g) ==
    IF g.player_invulnerable_timer <= 0
    THEN LET player_hits == SpriteCollide(g, g.player.rect, g.enemies)
         IN  IF player_hits # <<>>
             THEN Kill([g EXCEPT !.player = take_damage(@),
                                 !.player_invulnerable_timer = PLAYER_INVULNERABILITY_TIME],
                       Members(player_hits))
             ELSE g
    ELSE g

\* GameEngine.check_collisions
check_collisions(g) == EnemiesHitPlayer(ProjectilesHitEnemies(g))

\* GameEngine.cleanup_sprites
OutOfBounds(g, group) ==
    {id \in Members(group) :
        check_out_of_bounds(g.sprites[id].rect, SCREEN_WIDTH, SCREEN_HEIGHT, CLEANUP_MARGIN)}
cleanup_sprites(g) ==
    LET g1 == Kill(g, OutOfBounds(g, g.player_projectiles))
    IN  Kill(g1, OutOfBounds(g1, g1.enemies))

\* the two multipliers exchanged
update_difficulty_Swapped(g) ==
    IF g.score_service.current_score >= g.next_difficulty_score
    THEN [g EXCEPT
            !.current_spawn_rate = (@ * ENEMY_SPEED_MULTIPLIER) \div 10,
            !.current_enemy_speed_min = (@ * SPAWN_RATE_MULTIPLIER) \div 10,
            !.current_enemy_speed_max = (@ * SPAWN_RATE_MULTIPLIER) \div 10,
            !.next_difficulty_score = @ + DIFFICULTY_INCREASE_INTERVAL]
    ELSE g

\* a second escalation in the same call while the score is still ahead
update_difficulty_CatchUp(g) ==
    LET once(h) ==
            IF h.score_service.current_score >= h.next_difficulty_score
            THEN [h EXCEPT
                    !.current_spawn_rate = (@ * SPAWN_RATE_MULTIPLIER) \div 10,
                    !.current_enemy_speed_min = (@ * ENEMY_SPEED_MULTIPLIER) \div 10,
                    !.current_enemy_speed_max = (@ * ENEMY_SPEED_MULTIPLIER) \div 10,
                    !.next_difficulty_score = @ + DIFFICULTY_INCREASE_INTERVAL]
            ELSE h
    IN  once(once(g))

\* an escalation that speeds up the enemies already on their way as well
update_difficulty_Retroactive(g) ==
    IF g.score_service.current_score >= g.next_difficulty_score
    THEN [g EXCEPT
            !.current_spawn_rate = (@ * SPAWN_RATE_MULTIPLIER) \div 10,
            !.current_enemy_speed_min = (@ * ENEMY_SPEED_MULTIPLIER) \div 10,
            !.current_enemy_speed_max = (@ * ENEMY_SPEED_MULTIPLIER) \div 10,
            !.next_difficulty_score = @ + DIFFICULTY_INCREASE_INTERVAL,
            !.sprites = [id \in DOMAIN @ |->
                            IF @[id].kind = "enemy"
                            THEN [@[id] EXCEPT !.speed = (@ * ENEMY_SPEED_MULTIPLIER) \div 10]
                            ELSE @[id]]]
    ELSE g

\* an escalation one threshold early
update_difficulty_Eager(g) ==
    IF g.score_service.current_score + DIFFICULTY_INCREASE_INTERVAL >= g.next_difficulty_score
    THEN [g EXCEPT
            !.current_spawn_rate = (@ * SPAWN_RATE_MULTIPLIER) \div 10,
            !.current_enemy_speed_min = (@ * ENEMY_SPEED_MULTIPLIER) \div 10,
            !.current_enemy_speed_max = (@ * ENEMY_SPEED_MULTIPLIER) \div 10,
            !.next_difficulty_score = @ + DIFFICULTY_INCREASE_INTERVAL]
    ELSE g

\* GameEngine.update_difficulty
update_difficulty(g) ==
    IF g.score_service.current_score >= g.next_difficulty_score
    THEN [g EXCEPT
            !.current_spawn_rate = (@ * SPAWN_RATE_MULTIPLIER) \div 10,
            !.current_enemy_speed_min = (@ * ENEMY_SPEED_MULTIPLIER) \div 10,
            !.current_enemy_speed_max = (@ * ENEMY_SPEED_MULTIPLIER) \div 10,
            !.next_difficulty_score = @ + DIFFICULTY_INCREASE_INTERVAL]
    ELSE g

\* GameEngine.is_game_over: the value returned
is_over(g) == g.player.lives <= 0

SpriteUpdate(s, delta_time) ==
    IF s.kind = "enemy" THEN EnemyUpdate(s, delta_time)
    ELSE ProjectileUpdate(s, delta_time)

\* update line 147, all_sprites.update(delta_time): Group.update calls
\* sprite.update(delta_time) on each sprite in group order.  Player.update
\* takes (input_state, delta_time), so the call on the player raises TypeError
\* and ends the loop.
RECURSIVE GroupUpdate(_, _, _)
GroupUpdate(g, group, delta_time) ==
    IF group = <<>> THEN [engine |-> g, error |-> "none"]
    ELSE IF Head(group) = PlayerId THEN [engine |-> g, error |-> "TypeError"]
    ELSE GroupUpdate([g EXCEPT !.sprites[Head(group)] = SpriteUpdate(@, delta_time)],
                     Tail(group), delta_time)

\* update lines 135-143: the player's own update, then the shot
UpdatePlayerAndShoot(g, input_state, delta_time) ==
    LET p == PlayerUpdate(g.player, input_state, delta_time)
    IN  IF input_state.shoot /\ can_shoot(p)
        THEN AddProjectile([g EXCEPT !.player = AfterShot(p)], ShotOf(p))
        ELSE [g EXCEPT !.player = p]

\* update lines 149-153, with the values spawn_enemy draws
SpawnStep(g, delta_time, draw) ==
    LET timer == g.enemy_spawn_timer + delta_time * 1000
    IN  IF timer >= g.current_spawn_rate
        THEN [spawn_enemy(g, draw) EXCEPT !.enemy_spawn_timer = 0]
        ELSE [g EXCEPT !.enemy_spawn_timer = timer]

\* update lines 164-166
InvulnerabilityStep(g, delta_time) ==
    IF g.player_invulnerable_timer > 0
    THEN [g EXCEPT !.player_invulnerable_timer = @ - delta_time]
    ELSE g

\* update lines 149-166: what follows all_sprites.update
UpdateTail(g, delta_time, draw) ==
    InvulnerabilityStep(
        update_difficulty(cleanup_sprites(check_collisions(SpawnStep(g, delta_time, draw)))),
        delta_time)

\* ---------------------------------------------------------------- state
VARIABLES
    engine,      \* the GameEngine object with its player, groups and score service
    file,        \* highscores.json
    game_state,  \* main: game_state
    events,      \* main: the events of pygame.event.get() not handled yet
    main_pc,     \* main: "none" (no main loop), "top", "events", "crashed", "exited"
    running,     \* main: running
    last,        \* the last operation, if update, reset, check_collisions or
                 \* is_game_over ("call" for another): its name, the error it
                 \* raised; of check_collisions the enemies removed by projectiles
                 \* (shot) and by the player (rammed), the projectiles that
                 \* overlapped an enemy (aimed) and those removed (hitters); of
                 \* reset the enemies and projectiles it cleared and the score
                 \* it found
    saves        \* save_high_score calls since the life count was last above 0

vars == <<engine, file, game_state, events, main_pc, running, last, saves>>

Op(name, error) ==
    [op |-> name, error |-> error, shot |-> 0, rammed |-> 0, aimed |-> 0, hitters |-> 0,
     cleared |-> 0, scored |-> 0, delta_time |-> 0, shoot |-> FALSE, outcome |-> "none",
     reserved |-> FALSE, since_shot |-> None, destroyed |-> 0]

\* highscores.json when the program starts
InitFiles == {NoFile, ScoreFile(2 * ENEMY_POINTS)}

InitEngine ==
    /\ file \in InitFiles
    /\ engine = NewEngine(file)
    /\ last = Op("init", "none")
    /\ saves = 0

\* the engine on its own: its methods called in any order
Init ==
    /\ InitEngine
    /\ game_state = "menu"
    /\ events = <<>>
    /\ main_pc = "none"
    /\ running = TRUE

MainUnchanged == UNCHANGED <<game_state, events, main_pc, running>>

\* input mappings of InputService.get_input_state
InputStates ==
    {[move_left |-> l, move_right |-> r, move_up |-> u, move_down |-> u, shoot |-> s] :
        l \in BOOLEAN, r \in BOOLEAN, u \in {FALSE}, s \in BOOLEAN}

\* those that leave the player where it is
StandingInputs == {i \in InputStates : ~i.move_left /\ ~i.move_right}
\* every mapping of the five actions, the reserved move_up and move_down too
AllInputStates ==
    {[move_left |-> l, move_right |-> r, move_up |-> u, move_down |-> d, shoot |-> s] :
        l \in BOOLEAN, r \in BOOLEAN, u \in BOOLEAN, d \in BOOLEAN, s \in BOOLEAN}
\* those that fire nothing
WalkingInputs == {i \in InputStates : ~i.shoot}

SavesAfter(g) == IF g.player.lives > 0 THEN 0 ELSE saves

\* ---------------------------------------------------------------- engine operations
\* update lines 131-147: the engine they leave and the error they raise
UpdateHead(g, input_state, delta_time) ==
    LET g1 == UpdatePlayerAndShoot(g, input_state, delta_time)
    IN  GroupUpdate(g1, g1.all_sprites, delta_time)

\* GameEngine.update(input_state), delta_time being what clock.tick returned
\* and draw what spawn_enemy draws: the engine it leaves and the error it raises
update(g, input_state, delta_time, draw) ==
    LET r == UpdateHead(g, input_state, delta_time)
    IN  IF r.error # "none" THEN r
        ELSE [engine |-> UpdateTail(r.engine, delta_time, draw), error |-> "none"]

\* the draws that matter to this call of update: one stands for all when the
\* call raises before it spawns
DrawsOf(g, input_state, delta_time) ==
    IF UpdateHead(g, input_state, delta_time).error # "none"
    THEN {CHOOSE d \in EnemyDraws : TRUE}
    ELSE EnemyDraws

\* the enemies and projectiles alive
Crowd(g) == Len(g.all_sprites) - 1

\* the updates followed: those with room for the shot
UpdateGuard(g, input_state, delta_time, limit) ==
    LET p == PlayerUpdate(g.player, input_state, delta_time)
    IN  (input_state.shoot /\ can_shoot(p)) => Crowd(g) < limit

\* one call of update; noted: whether the record of the call keeps the frame's
\* delta time and shoot input
UpdateNoting(input_state, delta_time, limit, noted) ==
    /\ UpdateGuard(engine, input_state, delta_time, limit)
    /\ \E draw \in DrawsOf(engine, input_state, delta_time) :
          LET r == update(engine, input_state, delta_time, draw)
          IN  /\ engine' = r.engine
              /\ last' = IF noted
                         THEN [Op("update", r.error) EXCEPT
                                  !.delta_time = delta_time,
                                  !.shoot = input_state.shoot,
                                  !.reserved = input_state.move_up \/ input_state.move_down]
                         ELSE Op("update", r.error)
              /\ saves' = SavesAfter(r.engine)
    /\ UNCHANGED file

Update(input_state, delta_time, limit) == UpdateNoting(input_state, delta_time, limit, FALSE)

UpdateCall(limit, inputs) ==
    /\ main_pc = "none"
    /\ \E input_state \in inputs, delta_time \in DeltaTimes :
          Update(input_state, delta_time, limit)
    /\ MainUnchanged

ResetCall ==
    /\ main_pc = "none"
    /\ engine' = reset(engine)
    /\ last' = [Op("reset", "none") EXCEPT
                   !.cleared = Len(engine.all_sprites) - 1,
                   !.scored = engine.score_service.current_score]
    /\ saves' = 0
    /\ UNCHANGED file
    /\ MainUnchanged

\* GameEngine.is_game_over(), with what becomes of the file when it saves
IsGameOver(outcome) ==
    /\ IF is_over(engine)
       THEN /\ saves < MaxPolls
            /\ file' = save_high_score(engine.score_service, file, outcome)
            /\ saves' = saves + 1
       ELSE /\ outcome = "written"
            /\ UNCHANGED <<file, saves>>
    /\ last' = Op("is_game_over", "none")
    /\ UNCHANGED engine

IsGameOverCall ==
    /\ main_pc = "none"
    /\ \E outcome \in SaveOutcomes : IsGameOver(outcome)
    /\ MainUnchanged

\* GameEngine.spawn_enemy() called on the engine, recorded under the name op
SpawnEnemyAs(op, limit, draws) ==
    /\ main_pc = "none"
    /\ Crowd(engine) < limit
    /\ \E draw \in draws : engine' = spawn_enemy(engine, draw)
    /\ last' = Op(op, "none")
    /\ UNCHANGED <<file, saves>>
    /\ MainUnchanged

SpawnEnemyCall(limit, draws) == SpawnEnemyAs("call", limit, draws)

CheckCollisionsCall(kills) ==
    /\ main_pc = "none"
    /\ \/ check_collisions(engine).score_service = engine.score_service
       \/ check_collisions(engine).score_service.current_score <= kills * ENEMY_POINTS
    /\ engine' = check_collisions(engine)
    /\ last' = [Op("check_collisions", "none") EXCEPT
                  !.shot = Len(engine.enemies) - Len(ProjectilesHitEnemies(engine).enemies),
                  !.rammed = Len(ProjectilesHitEnemies(engine).enemies) - Len(engine'.enemies),
                  !.aimed = Cardinality({q \in Members(engine.player_projectiles) :
                                \E e \in Members(engine.enemies) :
                                    check_collision(engine.sprites[q].rect,
                                                    engine.sprites[e].rect)}),
                  !.hitters = Len(engine.player_projectiles) - Len(engine'.player_projectiles)]
    /\ saves' = SavesAfter(engine')
    /\ UNCHANGED file
    /\ MainUnchanged

\* GameEngine.update_difficulty() called on the engine, recorded under the name op
UpdateDifficultyAs(op) ==
    /\ main_pc = "none"
    /\ engine' = update_difficulty(engine)
    /\ last' = Op(op, "none")
    /\ UNCHANGED <<file, saves>>
    /\ MainUnchanged

UpdateDifficultyCall == UpdateDifficultyAs("call")

\* sprite.update(delta_time) on one enemy or projectile; a sprite that has left
\* the cleanup margin is not followed further
SpriteUpdateBy(delta_times) ==
    /\ main_pc = "none"
    /\ \E id \in DOMAIN engine.sprites, delta_time \in delta_times :
          /\ ~check_out_of_bounds(engine.sprites[id].rect, SCREEN_WIDTH, SCREEN_HEIGHT,
                                  CLEANUP_MARGIN)
          /\ engine' = [engine EXCEPT !.sprites[id] = SpriteUpdate(@, delta_time)]
    /\ last' = Op("call", "none")
    /\ UNCHANGED <<file, saves>>
    /\ MainUnchanged

SpriteUpdateCall == SpriteUpdateBy(SpriteDeltaTimes)

\* Player.take_damage() and Player.heal(amount) called on engine.player
TakeDamageCall ==
    /\ main_pc = "none"
    /\ engine.player.lives > -MaxDebt
    /\ engine' = [engine EXCEPT !.player = take_damage(@)]
    /\ last' = Op("call", "none")
    /\ saves' = SavesAfter(engine')
    /\ UNCHANGED file
    /\ MainUnchanged

HealCall ==
    /\ main_pc = "none"
    /\ \E amount \in {1} : engine' = [engine EXCEPT !.player = heal(@, amount)]
    /\ last' = Op("call", "none")
    /\ saves' = SavesAfter(engine')
    /\ UNCHANGED file
    /\ MainUnchanged

\* the same, followed only while the sprite stays within the cleanup margin
SpriteUpdateInBoundsCall ==
    /\ SpriteUpdateCall
    /\ \A id \in DOMAIN engine'.sprites :
          ~check_out_of_bounds(engine'.sprites[id].rect, SCREEN_WIDTH, SCREEN_HEIGHT,
                               CLEANUP_MARGIN)

\* ScoreService.add_points(points) called on engine.score_service
AddPoints(amounts, limit) ==
    /\ main_pc = "none"
    /\ \E points \in amounts :
          /\ engine.score_service.current_score + points <= limit
          /\ engine' = [engine EXCEPT !.score_service = add_points(@, points)]
    /\ last' = Op("call", "none")
    /\ UNCHANGED <<file, saves>>
    /\ MainUnchanged

AddPointsCall == AddPoints({DIFFICULTY_INCREASE_INTERVAL}, MaxScore)

\* every operation of the engine, with at most MaxCrowd enemies and projectiles
Next ==
    \/ UpdateCall(MaxCrowd, StandingInputs)
    \/ ResetCall
    \/ IsGameOverCall
    \/ SpawnEnemyCall(MaxCrowd, FastDraws)
    \/ CheckCollisionsCall(MaxCrowd)
    \/ UpdateDifficultyCall
    \/ SpriteUpdateInBoundsCall
    \/ TakeDamageCall
    \/ HealCall
    \/ AddPointsCall

Spec == Init /\ [][Next]_vars

\* ---------------------------------------------------------------- main.py
\* events of pygame.event.get(): QUIT, and KEYDOWN with these keys
Keys == {"K_ESCAPE", "K_SPACE", "K_RETURN", "K_a"}
Events == {[type |-> "QUIT", key |-> "none"]} \cup {[type |-> "KEYDOWN", key |-> k] : k \in Keys}

RECURSIVE SeqsUpTo(_, _)
SeqsUpTo(S, n) ==
    IF n = 0 THEN {<<>>}
    ELSE SeqsUpTo(S, n - 1) \cup {Append(q, e) : q \in {t \in SeqsUpTo(S, n - 1) : Len(t) = n - 1}, e \in S}

\* a game started without game_engine.reset()
KeyDown_NoReset(state, key) ==
    LET s1 == IF key = "K_ESCAPE"
              THEN IF state = "playing" THEN "paused"
                   ELSE IF state = "paused" THEN "playing"
                   ELSE state
              ELSE state
        start == s1 = "menu" /\ key \in {"K_SPACE", "K_RETURN"}
        s2 == IF start THEN "playing" ELSE s1
        s3 == IF s2 = "game_over" /\ key \in {"K_SPACE", "K_RETURN"} THEN "menu" ELSE s2
    IN  [game_state |-> s3, reset |-> FALSE]

\* the ESC handling written as two ifs, the second seeing what the first did
KeyDown_TwoIfs(state, key) ==
    LET s0 == IF key = "K_ESCAPE" /\ state = "playing" THEN "paused" ELSE state
        s1 == IF key = "K_ESCAPE" /\ s0 = "paused" THEN "playing" ELSE s0
        start == s1 = "menu" /\ key \in {"K_SPACE", "K_RETURN"}
        s2 == IF start THEN "playing" ELSE s1
        s3 == IF s2 = "game_over" /\ key \in {"K_SPACE", "K_RETURN"} THEN "menu" ELSE s2
    IN  [game_state |-> s3, reset |-> start]

\* main lines 71-88: the game state a KEYDOWN event leaves, and whether
\* game_engine.reset() was called
KeyDown(state, key) ==
    LET s1 == IF key = "K_ESCAPE"
              THEN IF state = "playing" THEN "paused"
                   ELSE IF state = "paused" THEN "playing"
                   ELSE state
              ELSE state
        start == s1 = "menu" /\ key \in {"K_SPACE", "K_RETURN"}
        s2 == IF start THEN "playing" ELSE s1
        s3 == IF s2 = "game_over" /\ key \in {"K_SPACE", "K_RETURN"} THEN "menu" ELSE s2
    IN  [game_state |-> s3, reset |-> start]

\* main(): the program as it runs, from line 47 on
InitMain ==
    /\ InitEngine
    /\ game_state = "menu"
    /\ events = <<>>
    /\ main_pc = "top"
    /\ running = TRUE

\* line 60 and 64: the loop test, then the events of this iteration
GetEvents ==
    /\ main_pc = "top"
    /\ running
    /\ events' \in SeqsUpTo(Events, MaxEvents)
    /\ main_pc' = "events"
    /\ UNCHANGED <<engine, file, game_state, running, last, saves>>

\* lines 64-88: one event handled
HandleEvent ==
    /\ main_pc = "events"
    /\ events # <<>>
    /\ events' = Tail(events)
    /\ LET event == Head(events)
           r == KeyDown(game_state, event.key)
       IN  IF event.type = "QUIT"
           THEN /\ running' = FALSE
                /\ UNCHANGED <<engine, game_state, last, saves>>
           ELSE /\ game_state' = r.game_state
                /\ IF r.reset
                   THEN /\ engine' = reset(engine)
                        /\ last' = [Op("reset", "none") EXCEPT
                                       !.cleared = Len(engine.all_sprites) - 1,
                                       !.scored = engine.score_service.current_score]
                        /\ saves' = 0
                   ELSE UNCHANGED <<engine, last, saves>>
                /\ UNCHANGED running
    /\ UNCHANGED <<file, main_pc>>

\* an engine updated while the game is paused too
Updating_Unpaused(state) == state \in {"playing", "paused"}

\* line 93: the game states in which the iteration updates the engine
Updating(state) == state = "playing"

\* lines 93-136: the rest of the iteration.  An error raised by update is
\* caught nowhere: it ends the program.
Frame ==
    /\ main_pc = "events"
    /\ events = <<>>
    /\ IF Updating(game_state)
       THEN \E input_state \in InputStates, delta_time \in DeltaTimes, outcome \in SaveOutcomes :
              /\ UpdateGuard(engine, input_state, delta_time, MaxSprites)
              /\ \E draw \in DrawsOf(engine, input_state, delta_time) :
                    LET r == update(engine, input_state, delta_time, draw)
                    IN  /\ engine' = r.engine
                        /\ IF r.error # "none"
                           THEN /\ main_pc' = "crashed"
                                /\ last' = Op("update", r.error)
                                /\ outcome = "written"
                                /\ UNCHANGED <<file, game_state, saves>>
                           ELSE /\ main_pc' = "top"
                                /\ last' = Op("is_game_over", "none")
                                /\ IF is_over(r.engine)
                                   THEN /\ file' = save_high_score(r.engine.score_service,
                                                                   file, outcome)
                                        /\ saves' = saves + 1
                                        /\ game_state' = "game_over"
                                   ELSE /\ outcome = "written"
                                        /\ UNCHANGED <<file, game_state, saves>>
       ELSE /\ main_pc' = "top"
            /\ UNCHANGED <<engine, file, game_state, last, saves>>
    /\ UNCHANGED <<events, running>>

\* lines 60, 139-140: running is false at the loop test
Quit ==
    /\ main_pc = "top"
    /\ ~running
    /\ main_pc' = "exited"
    /\ UNCHANGED <<engine, file, game_state, events, running, last, saves>>

NextMain == GetEvents \/ HandleEvent \/ Frame \/ Quit

SpecMain == InitMain /\ [][NextMain]_vars

\* the collision step: shots, spawns, moves and check_collisions, with up to
\* MaxSprites enemies and projectiles
InitCollide ==
    /\ Init
    /\ file = NoFile

NextCollide ==
    \/ UpdateCall(MaxSprites, StandingInputs)
    \/ SpawnEnemyCall(MaxSprites, FastDraws)
    \/ SpriteUpdateInBoundsCall
    \/ CheckCollisionsCall(MaxKills)

SpecCollide == InitCollide /\ [][NextCollide]_vars

\* the difficulty: points scored across up to MaxLevels thresholds,
\* update_difficulty, spawn_enemy and reset called in any order
NextDifficulty ==
    \/ AddPoints({ENEMY_POINTS, DIFFICULTY_INCREASE_INTERVAL},
                 MaxLevels * DIFFICULTY_INCREASE_INTERVAL)
    \/ UpdateDifficultyAs("update_difficulty")
    \/ SpawnEnemyAs("spawn_enemy", MaxCrowd, EdgeDraws)
    \/ ResetCall

SpecDifficulty == InitCollide /\ [][NextDifficulty]_vars

\* GameEngine.cleanup_sprites() called on the engine
CleanupSpritesCall ==
    /\ main_pc = "none"
    /\ engine' = cleanup_sprites(engine)
    /\ last' = [Op("cleanup_sprites", "none") EXCEPT
                   !.cleared = Len(engine.all_sprites) - Len(engine'.all_sprites)]
    /\ UNCHANGED <<file, saves>>
    /\ MainUnchanged

\* sprites leaving the screen: shots, spawns, sprites moved as far as one
\* step beyond the cleanup margin, cleanup_sprites and update
NextCleanup ==
    \/ UpdateCall(MaxPair, StandingInputs)
    \/ SpawnEnemyCall(MaxPair, EnemyDraws)
    \/ SpriteUpdateCall
    \/ CleanupSpritesCall

SpecCleanup == InitCollide /\ [][NextCleanup]_vars

\* the spawn step and the collision step: shots, projectiles flown up to the
\* spawn line, spawn_enemy and check_collisions
NextSpawn ==
    \/ UpdateCall(MaxPair, StandingInputs)
    \/ SpriteUpdateBy(FlightDeltaTimes)
    \/ SpawnEnemyAs("spawn_enemy", MaxPair, EnemyDraws)
    \/ CheckCollisionsCall(MaxPair)

SpecSpawn == InitCollide /\ [][NextSpawn]_vars

\* update(input_state) with the frame's delta time and shoot input kept in the
\* record, the player followed up to MaxSteps steps from where it starts
FrameWith(inputs) ==
    /\ main_pc = "none"
    /\ \E input_state \in inputs, delta_time \in FrameDeltaTimes :
          /\ LET x == PlayerUpdate(engine.player, input_state, delta_time).rect.x
                 x0 == NewEngine(NoFile).player.rect.x
             IN  /\ x - x0 <= MaxSteps * PLAYER_SPEED
                 /\ x0 - x <= MaxSteps * PLAYER_SPEED
          /\ UpdateNoting(input_state, delta_time, MaxCrowd, TRUE)
    /\ MainUnchanged

FrameCall == FrameWith(InputStates)

\* the frames one by one: update, with damage taken and resets in between
NextFrame ==
    \/ FrameCall
    \/ TakeDamageCall
    \/ ResetCall

SpecFrame == InitCollide /\ [][NextFrame]_vars

\* the player walking: update with every move input and no shot, from the
\* start position to both edges of the screen
NextMove == UpdateCall(MaxCrowd, WalkingInputs)

SpecMove == Init /\ [][NextMove]_vars

\* highscores.json as the program may find it: missing, not JSON, holding
\* null for the high score, holding a high score
AnyFiles == {NoFile, BadFile, [kind |-> "json", value |-> JsonNull],
             ScoreFile(5 * DIFFICULTY_INCREASE_INTERVAL)}

InitFile ==
    /\ file \in AnyFiles
    /\ engine = NewEngine(file)
    /\ last = Op("load_high_score", "none")
    /\ saves = 0
    /\ game_state = "menu"
    /\ events = <<>>
    /\ main_pc = "none"
    /\ running = TRUE

\* the program started again: GameEngine(), whose ScoreService loads the file
LoadCall ==
    /\ main_pc = "none"
    /\ engine' = NewEngine(file)
    /\ last' = Op("load_high_score", "none")
    /\ saves' = 0
    /\ UNCHANGED file
    /\ MainUnchanged

\* ScoreService.save_high_score() called on engine.score_service
SaveHighScoreCall ==
    /\ main_pc = "none"
    /\ \E outcome \in SaveOutcomes :
          /\ file' = save_high_score(engine.score_service, file, outcome)
          /\ last' = [Op("save_high_score", "none") EXCEPT !.outcome = outcome]
    /\ UNCHANGED <<engine, saves>>
    /\ MainUnchanged

\* ScoreService.add_points(points) whatever load_high_score returned: with a
\* high score that is no number the comparison of line 58 raises, after the
\* current score was increased
AddPointsLoaded(amounts, limit) ==
    /\ main_pc = "none"
    /\ \E points \in amounts :
          /\ engine.score_service.current_score + points <= limit
          /\ IF engine.score_service.high_score = None
             THEN /\ engine' = [engine EXCEPT !.score_service.current_score = @ + points]
                  /\ last' = Op("add_points", "TypeError")
             ELSE /\ engine' = [engine EXCEPT !.score_service = add_points(@, points)]
                  /\ last' = Op("add_points", "none")
    /\ UNCHANGED <<file, saves>>
    /\ MainUnchanged

\* the high score file: points scored, the file saved and the program started again
NextFile ==
    \/ AddPointsLoaded({ENEMY_POINTS, DIFFICULTY_INCREASE_INTERVAL},
                       MaxLevels * DIFFICULTY_INCREASE_INTERVAL)
    \/ SaveHighScoreCall
    \/ LoadCall

SpecFile == InitFile /\ [][NextFile]_vars

\* the frames with every input mapping, the reserved actions included
NextReserved ==
    \/ FrameWith(AllInputStates)
    \/ ResetCall

SpecReserved == InitCollide /\ [][NextReserved]_vars

\* the invulnerability window: enemies spawned and moved onto the player,
\* check_collisions, and the frames that follow with their delta times kept
NextWindow ==
    \/ FrameWith(StandingInputs)
    \/ SpawnEnemyCall(MaxCrowd, FastDraws)
    \/ SpriteUpdateInBoundsCall
    \/ CheckCollisionsCall(MaxCrowd)

SpecWindow == InitCollide /\ [][NextWindow]_vars

\* lines 93-136 with the two clocks: update takes its delta time from the
\* engine's clock, which ticks in update alone (game_engine.py:133); the tick
\* of main's clock at line 136 makes an iteration without update last
\* tick(0, FPS) ms, and after an update waits for what is left of that time
FrameTimed ==
    /\ main_pc = "events"
    /\ events = <<>>
    /\ IF Updating(game_state)
       THEN \E input_state \in InputStates, outcome \in SaveOutcomes,
               wait \in {0, tick(0, FPS)} :
              LET delta_time == tick(engine.clock, FPS)
                  ticked == [engine EXCEPT !.clock = 0]
              IN  /\ UpdateGuard(ticked, input_state, delta_time, MaxSprites)
                  /\ \E draw \in DrawsOf(ticked, input_state, delta_time) :
                        LET r == update(ticked, input_state, delta_time, draw)
                        IN  /\ engine' = [r.engine EXCEPT !.clock = wait]
                            /\ IF r.error # "none"
                               THEN /\ main_pc' = "crashed"
                                    /\ last' = [Op("update", r.error) EXCEPT
                                                   !.delta_time = delta_time]
                                    /\ outcome = "written"
                                    /\ wait = 0
                                    /\ UNCHANGED <<file, game_state, saves>>
                               ELSE /\ main_pc' = "top"
                                    /\ last' = [Op("is_game_over", "none") EXCEPT
                                                   !.delta_time = delta_time]
                                    /\ IF is_over(r.engine)
                                       THEN /\ file' = save_high_score(r.engine.score_service,
                                                                       file, outcome)
                                            /\ saves' = saves + 1
                                            /\ game_state' = "game_over"
                                       ELSE /\ outcome = "written"
                                            /\ UNCHANGED <<file, game_state, saves>>
       ELSE /\ main_pc' = "top"
            /\ engine.clock < MaxIdle * tick(0, FPS)
            /\ engine' = [engine EXCEPT !.clock = @ + tick(0, FPS)]
            /\ UNCHANGED <<file, game_state, last, saves>>
    /\ UNCHANGED <<events, running>>

\* the main loop with the time its iterations take
NextClock == GetEvents \/ HandleEvent \/ FrameTimed \/ Quit

SpecClock == InitMain /\ [][NextClock]_vars

\* update(input_state) with the delta times of the updates since the last
\* projectile was made added up in the record (since_shot: None before the
\* first shot of a game, 0 in the update that shoots, and followed up to
\* PROJECTILE_COOLDOWN)
FrameTiming(inputs, delta_times, limit) ==
    /\ main_pc = "none"
    /\ \E input_state \in inputs, delta_time \in delta_times :
          /\ UpdateGuard(engine, input_state, delta_time, limit)
          /\ \E draw \in DrawsOf(engine, input_state, delta_time) :
                LET r == update(engine, input_state, delta_time, draw)
                    fired == Len(r.engine.player_projectiles) > Len(engine.player_projectiles)
                IN  /\ engine' = r.engine
                    /\ last' = [Op("update", r.error) EXCEPT
                                   !.delta_time = delta_time,
                                   !.shoot = input_state.shoot,
                                   !.since_shot =
                                       IF fired THEN 0
                                       ELSE IF last.since_shot = None THEN None
                                       ELSE Min(last.since_shot + delta_time,
                                                PROJECTILE_COOLDOWN)]
                    /\ saves' = SavesAfter(r.engine)
    /\ UNCHANGED file
    /\ MainUnchanged

\* the shots of a game: frames with the shoot input held or not, and resets
NextFire ==
    \/ FrameTiming(StandingInputs, ShotDeltaTimes, MaxSprites)
    \/ ResetCall

SpecFire == InitCollide /\ [][NextFire]_vars

\* an operation of the engine that raises error and leaves the engine g,
\* recorded under the name op with the enemies its projectile-enemy step
\* removed (shot), the enemies it removed in all (cleared) and the enemies
\* removed by projectiles since the last reset (destroyed)
Tallied(op, error, g, shot) ==
    /\ main_pc = "none"
    /\ engine' = g
    /\ last' = [Op(op, error) EXCEPT
                   !.shot = shot,
                   !.cleared = Cardinality(Members(engine.enemies) \ Members(g.enemies)),
                   !.destroyed = IF op = "reset" THEN 0 ELSE last.destroyed + shot]
    /\ saves' = SavesAfter(g)
    /\ UNCHANGED file
    /\ MainUnchanged

\* the enemies the projectile-enemy step of check_collisions removes from g
ShotIn(g) == Len(g.enemies) - Len(ProjectilesHitEnemies(g).enemies)

TalliedUpdate(limit) ==
    \E input_state \in StandingInputs, delta_time \in DeltaTimes :
       /\ UpdateGuard(engine, input_state, delta_time, limit)
       /\ \E draw \in DrawsOf(engine, input_state, delta_time) :
             LET head == UpdateHead(engine, input_state, delta_time)
                 r == update(engine, input_state, delta_time, draw)
             IN  Tallied("update", r.error, r.engine,
                         IF head.error # "none" THEN 0
                         ELSE ShotIn(SpawnStep(head.engine, delta_time, draw)))

TalliedSpawnEnemy(limit) ==
    /\ Crowd(engine) < limit
    /\ \E draw \in FastDraws : Tallied("spawn_enemy", "none", spawn_enemy(engine, draw), 0)

TalliedSpriteUpdate ==
    \E id \in DOMAIN engine.sprites, delta_time \in SpriteDeltaTimes :
       /\ ~check_out_of_bounds(engine.sprites[id].rect, SCREEN_WIDTH, SCREEN_HEIGHT,
                               CLEANUP_MARGIN)
       /\ Tallied("call", "none",
                  [engine EXCEPT !.sprites[id] = SpriteUpdate(@, delta_time)], 0)

TalliedCheckCollisions(kills) ==
    /\ last.destroyed + ShotIn(engine) <= kills
    /\ Tallied("check_collisions", "none", check_collisions(engine), ShotIn(engine))

TalliedCleanupSprites == Tallied("cleanup_sprites", "none", cleanup_sprites(engine), 0)

TalliedReset == Tallied("reset", "none", reset(engine), 0)

\* the score of a game: shots, spawns, sprites moved onto projectiles, onto
\* the player and off the screen, check_collisions, cleanup_sprites and reset
NextScore ==
    \/ TalliedUpdate(MaxPair)
    \/ TalliedSpawnEnemy(MaxPair)
    \/ TalliedSpriteUpdate
    \/ TalliedCheckCollisions(MaxKills)
    \/ TalliedCleanupSprites
    \/ TalliedReset

SpecScore == InitCollide /\ [][NextScore]_vars

\* update(input_state) called with one of the given delta times, which the
\* record of the call keeps
UpdateBy(limit, inputs, delta_times) ==
    /\ main_pc = "none"
    /\ \E input_state \in inputs, delta_time \in delta_times :
          UpdateNoting(input_state, delta_time, limit, TRUE)
    /\ MainUnchanged

NormalUpdate == UpdateBy(MaxPair, StandingInputs, NormalDeltaTimes)

\* update called again and again with the delta times of normal frames, and
\* enemies spawned; no reset
NextLive ==
    \/ NormalUpdate
    \/ SpawnEnemyAs("spawn_enemy", MaxPair, EdgeDraws)

\* update keeps being called
SpecLive == InitCollide /\ [][NextLive]_vars /\ WF_vars(NormalUpdate)

\* ---------------------------------------------------------------- properties
\* C1 as stated: update is total: no call of it raises, whatever the state
\* the engine's operations have left and whatever the input mapping.
C1_UpdateNeverRaises == last.op = "update" => last.error = "none"

\* C2 as stated: after any sequence of engine operations the life count
\* is at least 0 and at most max_lives.
C2_LivesWithinRange ==
    /\ 0 <= engine.player.lives
    /\ engine.player.lives <= engine.player.max_lives

\* two bounding boxes share area (boxes that only touch do not)
Overlapping(r1, r2) ==
    /\ r1.x < r2.x + r2.w
    /\ r2.x < r1.x + r1.w
    /\ r1.y < r2.y + r2.h
    /\ r2.y < r1.y + r1.h

\* the enemy overlaps a projectile, the enemy overlaps the player
ShotAt(g, e) ==
    \E q \in Members(g.player_projectiles) : Overlapping(g.sprites[q].rect, g.sprites[e].rect)
Ramming(g, e) == Overlapping(g.player.rect, g.sprites[e].rect)

\* C3: a collision step that runs while the invulnerability timer is above
\* zero skips the enemy-player check: the life count and the timer are as they
\* were, and every enemy no projectile overlaps is still in the enemy
\* collection, overlapping the player or not.
C3_InvulnerableSkipsPlayerCheck ==
    [][(last'.op = "check_collisions" /\ engine.player_invulnerable_timer > 0) =>
          /\ engine'.player.lives = engine.player.lives
          /\ engine'.player_invulnerable_timer = engine.player_invulnerable_timer
          /\ \A e \in Members(engine.enemies) :
                ~ShotAt(engine, e) => e \in Members(engine'.enemies)]_vars

\* a collision step ran during invulnerability with two enemies on the player,
\* and both are still there
C3_Witness ==
    /\ last.op = "check_collisions"
    /\ last.rammed = 0
    /\ engine.player_invulnerable_timer > 0
    /\ Cardinality({e \in Members(engine.enemies) : Ramming(engine, e)}) >= 2

C5_PointsPerEnemyRemoved ==
    [][last'.op = "check_collisions" =>
          LET shot == {e \in Members(engine.enemies) : ShotAt(engine, e)}
          IN  /\ engine'.score_service.current_score =
                    engine.score_service.current_score + ENEMY_POINTS * Cardinality(shot)
              /\ \A e \in shot : e \notin Members(engine'.enemies)
              /\ \A e \in Members(engine.enemies) \ shot :
                    \/ e \in Members(engine'.enemies)
                    \/ engine.player_invulnerable_timer <= 0 /\ Ramming(engine, e)]_vars

\* two projectiles overlapped the one enemy that was removed, for ENEMY_POINTS
C5_Witness ==
    /\ last.op = "check_collisions"
    /\ last.aimed >= 2
    /\ last.shot = 1
    /\ engine.score_service.current_score = ENEMY_POINTS

C7_SavedOncePerGameOver ==
    /\ is_over(engine) <=> engine.player.lives <= 0
    /\ engine.player.lives > 0 => saves = 0
    /\ saves <= 1

\* the transitions of the game state a key may make, and those it must make
StartKeys == {"K_SPACE", "K_RETURN"}
KeyStep(s, key, t) ==
    /\ t # s =>
          \/ s = "menu" /\ t = "playing" /\ key \in StartKeys
          \/ s = "playing" /\ t = "paused" /\ key = "K_ESCAPE"
          \/ s = "paused" /\ t = "playing" /\ key = "K_ESCAPE"
          \/ s = "game_over" /\ t = "menu" /\ key \in StartKeys
    /\ (s = "menu" /\ key \in StartKeys) => t = "playing"
    /\ (s = "playing" /\ key = "K_ESCAPE") => t = "paused"
    /\ (s = "paused" /\ key = "K_ESCAPE") => t = "playing"
    /\ (s = "game_over" /\ key \in StartKeys) => t = "menu"

\* C8: the game state starts as MENU; a key event makes at most one
\* transition, and only MENU -> PLAYING on SPACE or RETURN, PLAYING <-> PAUSED
\* on ESC, GAME_OVER -> MENU on SPACE or RETURN; outside event handling the
\* only transition is PLAYING -> GAME_OVER, after an update that left no lives.
C8_GameStateTransitions ==
    /\ game_state = "menu"
    /\ \A s \in GameStates, key \in Keys : KeyStep(s, key, KeyDown(s, key).game_state)
    /\ [][/\ events # <<>> =>
                KeyStep(game_state,
                        IF Head(events).type = "KEYDOWN" THEN Head(events).key ELSE "none",
                        game_state')
          /\ (events = <<>> /\ game_state' # game_state) =>
                /\ game_state = "playing"
                /\ game_state' = "game_over"
                /\ engine'.player.lives <= 0]_vars

\* the game was started and paused by two events of one iteration
C8_Witness ==
    /\ game_state = "paused"
    /\ last.op = "reset"
    /\ main_pc = "events"

\* C9: reset() leaves the initial configuration: no projectiles, no enemies,
\* only the player among all sprites, a new player centred at (400, 510) with
\* 3 lives and no cooldown, score 0, spawn timer 0, the initial spawn rate,
\* speed range and difficulty threshold, invulnerability timer 0; a second
\* reset changes nothing.
C9_ResetRestoresInitial ==
    [][last'.op = "reset" =>
          /\ engine'.all_sprites = <<PlayerId>>
          /\ engine'.player_projectiles = <<>>
          /\ engine'.enemies = <<>>
          /\ DOMAIN engine'.sprites = {}
          /\ CenterX(engine'.player.rect) = 400
          /\ CenterY(engine'.player.rect) = 510
          /\ engine'.player.lives = 3
          /\ engine'.player.max_lives = 3
          /\ engine'.player.shoot_cooldown = 0
          /\ engine'.player.invulnerable_flash_timer = 0
          /\ engine'.score_service.current_score = 0
          /\ engine'.enemy_spawn_timer = 0
          /\ engine'.current_spawn_rate = ENEMY_SPAWN_RATE
          /\ engine'.current_enemy_speed_min = ENEMY_SPEED_MIN
          /\ engine'.current_enemy_speed_max = ENEMY_SPEED_MAX
          /\ engine'.next_difficulty_score = DIFFICULTY_INCREASE_INTERVAL
          /\ engine'.player_invulnerable_timer = 0
          /\ last.op = "reset" => engine' = engine]_vars

\* reset was called on a game with a sprite alive and points scored
C9_Witness ==
    /\ last.op = "reset"
    /\ last.cleared >= 1
    /\ last.scored >= ENEMY_POINTS

\* C10: reset() leaves the high score in memory and highscores.json as they
\* were, whatever the current score.
C10_ResetKeepsHighScore ==
    [][last'.op = "reset" =>
          /\ engine'.score_service.high_score = engine.score_service.high_score
          /\ file' = file]_vars

\* reset was called after this game's score had become the high score
C10_Witness ==
    /\ last.op = "reset"
    /\ last.scored >= DIFFICULTY_INCREASE_INTERVAL
    /\ engine.score_service.high_score = last.scored
    /\ engine.score_service.current_score = 0

\* the engine as a new game finds it
NewGame(g) ==
    /\ g.score_service.current_score = 0
    /\ g.player.lives = PLAYER_STARTING_LIVES
    /\ g.player.max_lives = PLAYER_STARTING_LIVES
    /\ g.enemies = <<>>
    /\ g.player_projectiles = <<>>
    /\ g.current_spawn_rate = ENEMY_SPAWN_RATE
    /\ g.current_enemy_speed_min = ENEMY_SPEED_MIN
    /\ g.current_enemy_speed_max = ENEMY_SPEED_MAX
    /\ g.next_difficulty_score = DIFFICULTY_INCREASE_INTERVAL

\* C11: the key handler calls reset() exactly when it takes the game from MENU
\* to PLAYING; every such step leaves the engine reset (score 0, full lives, no
\* enemies or projectiles, initial difficulty), the first update after it
\* starts from that engine, and resuming from PAUSED leaves the engine as it is.
C11_PlayingStartsReset ==
    /\ \A s \in GameStates, key \in Keys :
          KeyDown(s, key).reset <=> (s = "menu" /\ KeyDown(s, key).game_state = "playing")
    /\ [][/\ (game_state = "menu" /\ game_state' = "playing") =>
                (last'.op = "reset" /\ NewGame(engine'))
          /\ (game_state = "paused" /\ game_state' = "playing") =>
                (engine' = engine /\ last' = last)
          /\ (last.op = "reset" /\ last'.op = "update") => NewGame(engine)]_vars

\* a game was started from the menu and its first update was called
C11_Witness ==
    /\ game_state = "playing"
    /\ main_pc = "crashed"
    /\ last.op = "update"
    /\ engine.score_service.current_score = 0

\* C12: no call of update_difficulty makes the game easier: it never lowers
\* next_difficulty_score, never raises current_spawn_rate and never lowers
\* either bound of the enemy speed range.
C12_DifficultyNeverEases ==
    [][last'.op = "update_difficulty" =>
          /\ engine'.next_difficulty_score >= engine.next_difficulty_score
          /\ engine'.current_spawn_rate <= engine.current_spawn_rate
          /\ engine'.current_enemy_speed_min >= engine.current_enemy_speed_min
          /\ engine'.current_enemy_speed_max >= engine.current_enemy_speed_max]_vars

\* update_difficulty has escalated twice since the game began
C12_Witness ==
    /\ last.op = "update_difficulty"
    /\ engine.next_difficulty_score = 3 * DIFFICULTY_INCREASE_INTERVAL
    /\ engine.current_spawn_rate < ENEMY_SPAWN_RATE
    /\ engine.current_enemy_speed_min > ENEMY_SPEED_MIN

\* one escalation from difficulty g to difficulty h
Escalated(g, h) ==
    /\ h.current_spawn_rate * 10 = g.current_spawn_rate * SPAWN_RATE_MULTIPLIER
    /\ h.current_enemy_speed_min * 10 = g.current_enemy_speed_min * ENEMY_SPEED_MULTIPLIER
    /\ h.current_enemy_speed_max * 10 = g.current_enemy_speed_max * ENEMY_SPEED_MULTIPLIER
    /\ h.next_difficulty_score = g.next_difficulty_score + DIFFICULTY_INCREASE_INTERVAL

SameDifficulty(g, h) ==
    /\ h.current_spawn_rate = g.current_spawn_rate
    /\ h.current_enemy_speed_min = g.current_enemy_speed_min
    /\ h.current_enemy_speed_max = g.current_enemy_speed_max
    /\ h.next_difficulty_score = g.next_difficulty_score

\* C13: a call of update_difficulty escalates exactly once when the score has
\* reached next_difficulty_score, however many thresholds the score is ahead,
\* and not at all otherwise; the thresholds left over are taken one per later
\* call, each call with the score still at or past the threshold escalating
\* once more.
C13_OneEscalationPerCall ==
    [][last'.op = "update_difficulty" =>
          IF engine.score_service.current_score >= engine.next_difficulty_score
          THEN Escalated(engine, engine')
          ELSE SameDifficulty(engine, engine')]_vars

\* the score is two thresholds ahead and one call has escalated once
C13_Witness ==
    /\ last.op = "update_difficulty"
    /\ engine.score_service.current_score >= 2 * DIFFICULTY_INCREASE_INTERVAL
    /\ engine.next_difficulty_score = 2 * DIFFICULTY_INCREASE_INTERVAL
    /\ engine.current_enemy_speed_max * 10 = ENEMY_SPEED_MAX * ENEMY_SPEED_MULTIPLIER

\* the enemy a spawn_enemy step has just added
Newest(g) == g.sprites[g.enemies[Len(g.enemies)]]

\* C18: every enemy spawn_enemy creates is centred at an x within
\* [ENEMY_SIZE_MAX, SCREEN_WIDTH - ENEMY_SIZE_MAX] and at y = -ENEMY_SIZE_MAX,
\* has a size within [ENEMY_SIZE_MIN, ENEMY_SIZE_MAX] whatever the difficulty,
\* and a speed within the speed range current at the time of the spawn.
C18_SpawnedEnemyWithinRanges ==
    [][last'.op = "spawn_enemy" =>
          /\ Len(engine'.enemies) = Len(engine.enemies) + 1
          /\ CenterX(Newest(engine').rect) >= ENEMY_SIZE_MAX
          /\ CenterX(Newest(engine').rect) <= SCREEN_WIDTH - ENEMY_SIZE_MAX
          /\ CenterY(Newest(engine').rect) = -ENEMY_SIZE_MAX
          /\ Newest(engine').size >= ENEMY_SIZE_MIN
          /\ Newest(engine').size <= ENEMY_SIZE_MAX
          /\ Newest(engine').speed >= engine.current_enemy_speed_min
          /\ Newest(engine').speed <= engine.current_enemy_speed_max]_vars

\* an enemy spawned after an escalation, slower than the raised range allows
\* no enemy to be but for the range's lower end
C18_Witness ==
    /\ last.op = "spawn_enemy"
    /\ engine.current_enemy_speed_min > ENEMY_SPEED_MIN
    /\ Newest(engine).speed = engine.current_enemy_speed_min
    /\ CenterX(Newest(engine).rect) = SCREEN_WIDTH - ENEMY_SIZE_MAX

\* C14 as stated: no timer of the player is ever negative: after every update
\* the invulnerability timer, the shoot cooldown and the flash timer are all
\* at least 0.
C14_TimersNeverNegative ==
    last.op = "update" =>
        /\ engine.player_invulnerable_timer >= 0
        /\ engine.player.shoot_cooldown >= 0
        /\ engine.player.invulnerable_flash_timer >= 0

\* the enemies and projectiles of g lying entirely outside the screen extended
\* by the cleanup margin
BeyondMargin(g) ==
    {id \in Members(g.enemies) \cup Members(g.player_projectiles) :
        check_out_of_bounds(g.sprites[id].rect, SCREEN_WIDTH, SCREEN_HEIGHT, CLEANUP_MARGIN)}

\* C15 as stated: after every update no projectile and no enemy that remains
\* lies entirely outside the screen extended by the 100-pixel margin: whatever
\* is beyond the margin when the update's cleanup runs is removed in that update.
C15_NothingBeyondMarginAfterUpdate ==
    last.op = "update" => BeyondMargin(engine) = {}

\* C16 as stated: an enemy created by the spawn step takes no part in the
\* collision step that follows it in the same update (lines 152 and 156): that
\* check_collisions neither destroys and scores it nor lets it damage the player.
C16_NewSpawnSitsOutCollisions ==
    [][(last.op = "spawn_enemy" /\ last'.op = "check_collisions") =>
          /\ engine.enemies[Len(engine.enemies)] \in Members(engine'.enemies)
          /\ engine'.score_service = engine.score_service
          /\ engine'.player.lives = engine.player.lives]_vars

\* C17 as stated: every update adds delta_time to the spawn timer; it spawns
\* exactly one enemy and resets the timer to 0 when the accumulated timer has
\* reached the current spawn interval, and otherwise spawns none and keeps the
\* accumulated value.
C17_SpawnTimerAccumulates ==
    [][last'.op = "update" =>
          LET timer == engine.enemy_spawn_timer + last'.delta_time * 1000
          IN  IF timer >= engine.current_spawn_rate
              THEN /\ Len(engine'.enemies) = Len(engine.enemies) + 1
                   /\ engine'.enemy_spawn_timer = 0
              ELSE /\ engine'.enemies = engine.enemies
                   /\ engine'.enemy_spawn_timer = timer]_vars

\* the projectile an update has just added
NewShot(g) == g.sprites[g.player_projectiles[Len(g.player_projectiles)]]

Boxes ==
    UNION {{Rect(x, y, size[1], size[2]) :
                x \in {-size[1] - 1, -1, 0, 1, SCREEN_WIDTH - size[1] - 1,
                       SCREEN_WIDTH - size[1], SCREEN_WIDTH - size[1] + 1, SCREEN_WIDTH + 1},
                y \in {-size[2] - 1, -1, 0, 1, SCREEN_HEIGHT - size[2] - 1,
                       SCREEN_HEIGHT - size[2], SCREEN_HEIGHT - size[2] + 1, SCREEN_HEIGHT + 1}} :
           size \in {<<PLAYER_WIDTH, PLAYER_HEIGHT>>, <<ENEMY_SIZE_MAX, ENEMY_SIZE_MAX>>,
                     <<SCREEN_WIDTH, SCREEN_HEIGHT>>}}

InsideScreen(r) ==
    /\ Left(r) >= 0
    /\ Right(r) <= SCREEN_WIDTH
    /\ Top(r) >= 0
    /\ Bottom(r) <= SCREEN_HEIGHT

\* C20: keep_in_bounds moves a box no larger than the screen, without resizing
\* it, so that it lies fully inside [0, SCREEN_WIDTH] x [0, SCREEN_HEIGHT]; it
\* leaves a box already inside where it is and applying it twice is applying
\* it once.  So after every update, whatever the inputs, the player's box lies
\* fully inside the screen with its size unchanged.
C20_PlayerKeptInBounds ==
    /\ \A box \in Boxes :
          LET kept == keep_in_bounds(box, SCREEN_WIDTH, SCREEN_HEIGHT)
          IN  /\ InsideScreen(kept)
              /\ kept.w = box.w /\ kept.h = box.h
              /\ InsideScreen(box) => kept = box
              /\ keep_in_bounds(kept, SCREEN_WIDTH, SCREEN_HEIGHT) = kept
    /\ [][last'.op = "update" =>
              /\ InsideScreen(engine'.player.rect)
              /\ engine'.player.rect.w = PLAYER_WIDTH
              /\ engine'.player.rect.h = PLAYER_HEIGHT
              /\ engine'.player.rect.x - engine.player.rect.x \in -PLAYER_SPEED .. PLAYER_SPEED
              /\ engine'.player.rect.y = engine.player.rect.y]_vars

\* the player against the right edge after an update
C20_Witness ==
    /\ last.op = "update"
    /\ Right(engine.player.rect) = SCREEN_WIDTH
    /\ Left(engine.player.rect) = SCREEN_WIDTH - PLAYER_WIDTH

\* some point of the box, its edges included, lies in the screen extended by
\* the margin on every side, the region's edges included
SomePointInRegion(box, margin) ==
    /\ \E px \in Left(box) .. Right(box) : px >= -margin /\ px <= SCREEN_WIDTH + margin
    /\ \E py \in Top(box) .. Bottom(box) : py >= -margin /\ py <= SCREEN_HEIGHT + margin

\* boxes of a projectile's and of an enemy's largest size placed just beyond,
\* on and just inside each edge of the extended screen, and on its middle
BoxesAround(margin) ==
    UNION {{Rect(x, y, size[1], size[2]) :
                x \in {-margin - size[1] - 1, -margin - size[1], -margin - size[1] + 1,
                       SCREEN_WIDTH \div 2,
                       SCREEN_WIDTH + margin - 1, SCREEN_WIDTH + margin, SCREEN_WIDTH + margin + 1},
                y \in {-margin - size[2] - 1, -margin - size[2], -margin - size[2] + 1,
                       SCREEN_HEIGHT \div 2,
                       SCREEN_HEIGHT + margin - 1, SCREEN_HEIGHT + margin,
                       SCREEN_HEIGHT + margin + 1}} :
           size \in {<<PROJECTILE_WIDTH, PROJECTILE_HEIGHT>>, <<ENEMY_SIZE_MAX, ENEMY_SIZE_MAX>>}}

\* C21: check_out_of_bounds(rect, w, h, margin) is true exactly when no point
\* of the box lies in [-margin, w + margin] x [-margin, h + margin], and false
\* for every box that intersects or touches that region, for margins >= 0;
\* cleanup_sprites, which calls it with the margin of 100, removes exactly the
\* sprites with no point in the extended screen.
C21_OutOfBoundsIffNoPointInside ==
    /\ \A margin \in {0, 1, CLEANUP_MARGIN} : \A box \in BoxesAround(margin) :
          check_out_of_bounds(box, SCREEN_WIDTH, SCREEN_HEIGHT, margin)
             <=> ~SomePointInRegion(box, margin)
    /\ [][last'.op = "cleanup_sprites" =>
              /\ Members(engine'.enemies) =
                    {id \in Members(engine.enemies) :
                        SomePointInRegion(engine.sprites[id].rect, CLEANUP_MARGIN)}
              /\ Members(engine'.player_projectiles) =
                    {id \in Members(engine.player_projectiles) :
                        SomePointInRegion(engine.sprites[id].rect, CLEANUP_MARGIN)}]_vars

\* cleanup_sprites has removed a sprite and kept another
C21_Witness ==
    /\ last.op = "cleanup_sprites"
    /\ last.cleared > 0
    /\ Len(engine.all_sprites) > 1

\* the pixels of a box: its right and bottom coordinates are not part of it
Pixels(box) == (Left(box) .. Right(box) - 1) \X (Top(box) .. Bottom(box) - 1)

\* a projectile's box placed around the box of the smallest enemy standing at
\* the origin: apart from it, touching an edge or a corner, one pixel in, inside
BoxesNear ==
    {Rect(x, y, PROJECTILE_WIDTH, PROJECTILE_HEIGHT) :
        x \in {-PROJECTILE_WIDTH - 1, -PROJECTILE_WIDTH, -PROJECTILE_WIDTH + 1, 2,
               ENEMY_SIZE_MIN - 1, ENEMY_SIZE_MIN, ENEMY_SIZE_MIN + 1},
        y \in {-PROJECTILE_HEIGHT - 1, -PROJECTILE_HEIGHT, -PROJECTILE_HEIGHT + 1, 2,
               ENEMY_SIZE_MIN - 1, ENEMY_SIZE_MIN, ENEMY_SIZE_MIN + 1}}

C23_MotionLinearInTime ==
    \A id \in DOMAIN engine.sprites : \A d1 \in SplitDeltaTimes, d2 \in SplitDeltaTimes :
        LET sprite == engine.sprites[id]
        IN  SpriteUpdate(SpriteUpdate(sprite, d1), d2).rect = SpriteUpdate(sprite, d1 + d2).rect

\* C24: load_high_score returns 0 when there is no file, and after a
\* save_high_score that succeeded with the high score h in memory it returns
\* h, for every h >= 0 (500 for one).
C24_HighScoreRoundTrip ==
    /\ load_high_score(NoFile) = 0
    /\ \A h \in {0, 9, 500, 1070, 99999} :
          load_high_score(save_high_score([current_score |-> 0, high_score |-> h],
                                          NoFile, "written")) = h
    /\ [][LET saved(op) == /\ op.op = "save_high_score"
                           /\ op.outcome = "written"
                           /\ engine.score_service.high_score >= 0
           IN  /\ saved(last') => load_high_score(file') = engine.score_service.high_score
               /\ (last'.op = "load_high_score" /\ file.kind = "missing") =>
                      engine'.score_service.high_score = 0
               /\ (saved(last) /\ last'.op = "load_high_score") =>
                      engine'.score_service.high_score = engine.score_service.high_score]_vars

\* the program started again on a high score that an earlier run scored and saved
C24_Witness ==
    /\ last.op = "load_high_score"
    /\ engine.score_service.current_score = 0
    /\ engine.score_service.high_score = DIFFICULTY_INCREASE_INTERVAL + ENEMY_POINTS

\* the file holds a high score that is a number
WellFormed(f) == f.kind = "json" /\ IsDigits(f.value)

\* C25 as stated: persistence failures are never fatal: load_high_score
\* returns 0 and raises nothing when the file is missing or its content is
\* malformed, a failing save_high_score raises nothing and leaves the scores
\* in memory as they were, and the game continues.
C25_PersistenceNeverFatal ==
    /\ last.error = "none"
    /\ (last.op = "load_high_score" /\ ~WellFormed(file)) => engine.score_service.high_score = 0

\* C26: move_up and move_down have no effect: from any engine state, update
\* with the same delta time and two input mappings that differ only in
\* move_up and move_down leaves the same engine state (and raises the same);
\* the player's vertical position is always the one it was created with.
C26_ReservedInputsIgnored ==
    /\ \A input_state \in AllInputStates, delta_time \in FrameDeltaTimes :
          \A draw \in DrawsOf(engine, input_state, delta_time) :
              update(engine, input_state, delta_time, draw)
                = update(engine, [input_state EXCEPT !.move_up = FALSE, !.move_down = FALSE],
                         delta_time, draw)
    /\ CenterY(engine.player.rect) = (SCREEN_HEIGHT * PLAYER_START_Y_RATIO) \div 100
    /\ engine.player.rect.h = PLAYER_HEIGHT

\* an update with a reserved action set, the player away from its start
C26_Witness ==
    /\ last.op = "update"
    /\ last.reserved
    /\ engine.player.rect.x # NewEngine(NoFile).player.rect.x
    /\ engine.player_projectiles # <<>>

\* C27: the velocity of an entity never changes after its creation: over every
\* step a projectile that stays in play keeps its velocity and an enemy that
\* stays in play keeps its speed, a difficulty escalation included, which
\* changes the speed range for the enemies spawned after it only.
C27_VelocityFixedAtCreation ==
    [][\A id \in (DOMAIN engine.sprites) \cap (DOMAIN engine'.sprites) :
          /\ engine'.sprites[id].kind = engine.sprites[id].kind
          /\ IF engine.sprites[id].kind = "enemy"
             THEN engine'.sprites[id].speed = engine.sprites[id].speed
             ELSE /\ engine'.sprites[id].velocity_x = engine.sprites[id].velocity_x
                  /\ engine'.sprites[id].velocity_y = engine.sprites[id].velocity_y]_vars

\* an enemy spawned before an escalation, on its way down at its old speed
C27_Witness ==
    /\ engine.current_enemy_speed_max > ENEMY_SPEED_MAX
    /\ \E e \in Members(engine.enemies) :
          /\ engine.sprites[e].speed = ENEMY_SPEED_MAX
          /\ CenterY(engine.sprites[e].rect) > 0

\* C28 as stated: an update resolves the projectile-enemy collisions before
\* the enemy-player collisions: an enemy that overlaps both a projectile and
\* the player, the player not invulnerable, is destroyed by the projectile and
\* scored in that update, so that none such is left when the update ends.
C28_ShotBeforeRammed ==
    last.op = "update" =>
        ~\E e \in Members(engine.enemies) :
            /\ ShotAt(engine, e)
            /\ Ramming(engine, e)
            /\ engine.player_invulnerable_timer <= 0

C30_WindowLastsConfiguredTime ==
    [][(last'.op = "update" /\ last'.delta_time >= PLAYER_INVULNERABILITY_TIME) =>
          engine'.player_invulnerable_timer <= 0]_vars

\* C31 as stated: time spent outside PLAYING is not simulated: the delta time
\* of every update is the time of one iteration of the main loop, however many
\* iterations went by in the menu or paused before it.
C31_IdleTimeNotSimulated == last.op = "update" => last.delta_time <= tick(0, FPS)

\* C32: between two consecutive projectile creations with no reset in between,
\* the delta times of the updates after the first shot, up to and including
\* the update of the second, add up to at least PROJECTILE_COOLDOWN.
C32_FireRateLimited ==
    [][(/\ last'.op = "update"
        /\ Len(engine'.player_projectiles) > Len(engine.player_projectiles)
        /\ last.since_shot # None)
          => last.since_shot + last'.delta_time >= PROJECTILE_COOLDOWN]_vars

\* a second shot of the game, fired in a frame shorter than the cooldown
C32_Witness ==
    /\ last.op = "update"
    /\ last.since_shot = 0
    /\ last.delta_time < PROJECTILE_COOLDOWN
    /\ last.delta_time > 0
    /\ Len(engine.player_projectiles) >= 2

C34_ScoreCountsEnemiesShot ==
    /\ [][last'.op # "reset" =>
             engine'.score_service.current_score >= engine.score_service.current_score]_vars
    /\ [](engine.score_service.current_score = ENEMY_POINTS * last.destroyed)

\* with an enemy shot earlier in the game, an enemy removed by the player or
\* by cleanup_sprites
C34_Witness ==
    /\ last.op \in {"check_collisions", "cleanup_sprites"}
    /\ last.shot = 0
    /\ last.cleared >= 1
    /\ last.destroyed >= 1
    /\ engine.score_service.current_score = ENEMY_POINTS * last.destroyed

\* b to the power n
RECURSIVE Power(_, _)
Power(b, n) == IF n = 0 THEN 1 ELSE b * Power(b, n - 1)

\* C35: the parts of the difficulty move in lockstep and never run ahead of the
\* score: next_difficulty_score is a positive multiple of
\* DIFFICULTY_INCREASE_INTERVAL and changes only by a reset or by one
\* escalation; with k = next_difficulty_score / DIFFICULTY_INCREASE_INTERVAL - 1,
\* the escalations since the last reset, k <= floor(score /
\* DIFFICULTY_INCREASE_INTERVAL), the spawn interval is ENEMY_SPAWN_RATE *
\* SPAWN_RATE_MULTIPLIER^k and the speed bounds are their initial values *
\* ENEMY_SPEED_MULTIPLIER^k (the multipliers being tenths); the spawn interval
\* is > 0 and speed min <= speed max.
C35_DifficultyInLockstep ==
    /\ [][engine'.next_difficulty_score # engine.next_difficulty_score =>
             \/ last'.op = "reset" /\ engine'.next_difficulty_score = DIFFICULTY_INCREASE_INTERVAL
             \/ Escalated(engine, engine')]_vars
    /\ [](LET k == engine.next_difficulty_score \div DIFFICULTY_INCREASE_INTERVAL - 1
          IN  /\ engine.next_difficulty_score > 0
              /\ engine.next_difficulty_score % DIFFICULTY_INCREASE_INTERVAL = 0
              /\ k <= engine.score_service.current_score \div DIFFICULTY_INCREASE_INTERVAL
              /\ engine.current_spawn_rate * Power(10, k)
                    = ENEMY_SPAWN_RATE * Power(SPAWN_RATE_MULTIPLIER, k)
              /\ engine.current_enemy_speed_min * Power(10, k)
                    = ENEMY_SPEED_MIN * Power(ENEMY_SPEED_MULTIPLIER, k)
              /\ engine.current_enemy_speed_max * Power(10, k)
                    = ENEMY_SPEED_MAX * Power(ENEMY_SPEED_MULTIPLIER, k)
              /\ engine.current_spawn_rate > 0
              /\ engine.current_enemy_speed_min <= engine.current_enemy_speed_max)

\* two escalations with the score exactly at the second threshold
C35_Witness ==
    /\ engine.score_service.current_score = 2 * DIFFICULTY_INCREASE_INTERVAL
    /\ engine.next_difficulty_score = 3 * DIFFICULTY_INCREASE_INTERVAL
    /\ engine.current_spawn_rate * 100 = ENEMY_SPAWN_RATE * 81

\* C36 as stated: in every state of the score service the high score in
\* memory is a number >= the current score, and no add_points, reset_score or
\* save_high_score lowers it.
C36_HighScoreDominates ==
    /\ [][last'.op # "load_high_score" =>
             engine'.score_service.high_score >= engine.score_service.high_score]_vars
    /\ [](/\ engine.score_service.high_score # None
          /\ engine.score_service.high_score >= engine.score_service.current_score)

\* C37: after every operation of the engine the collections are consistent:
\* enemies and player_projectiles are disjoint, all_sprites holds exactly the
\* player, once, with every enemy and every projectile, each once, the enemies
\* are Enemy objects and the projectiles Projectile objects, and a sprite that
\* was removed is in none of the three.
C37_CollectionsConsistent ==
    LET enemies == Members(engine.enemies)
        projectiles == Members(engine.player_projectiles)
    IN  /\ enemies \cap projectiles = {}
        /\ Members(engine.all_sprites) = {PlayerId} \cup enemies \cup projectiles
        /\ PlayerId \notin enemies \cup projectiles
        /\ Len(engine.all_sprites) = 1 + Len(engine.enemies) + Len(engine.player_projectiles)
        /\ Cardinality(enemies) = Len(engine.enemies)
        /\ Cardinality(projectiles) = Len(engine.player_projectiles)
        /\ DOMAIN engine.sprites = enemies \cup projectiles
        /\ \A e \in enemies : engine.sprites[e].kind = "enemy"
        /\ \A q \in projectiles : engine.sprites[q].kind = "projectile"

\* check_collisions or cleanup_sprites has removed an enemy and left another
\* sprite beside the player
C37_Witness ==
    /\ last.op \in {"check_collisions", "cleanup_sprites"}
    /\ last.cleared >= 1
    /\ Len(engine.all_sprites) >= 2

\* C38 as stated: no entity lives forever: while update keeps being called
\* with the delta times of normal frames and no reset occurs, every projectile
\* and every enemy present in the collections is eventually removed.
C38_EveryEntityRemoved ==
    \A id \in SpriteIds : (id \in DOMAIN engine.sprites) ~> (id \notin DOMAIN engine.sprites)

\* C39 as stated: the persisted high score never goes down: whatever is added
\* to the score, saved (the save succeeding, failing before the file is opened
\* or failing part-way) and loaded again, no step lowers the value
\* load_high_score() would return from the file.
C39_PersistedHighScoreNeverDrops ==
    [][load_high_score(file') >= load_high_score(file)]_vars

====
